---- MODULE Spec2Model ----
(***************************************************************************)
(* State-machine model of the barrier node of kapacitor (barrier.go).      *)
(*                                                                         *)
(* Threads: the node's consumer thread (runBarrierEmitter: NewGroup, the   *)
(* message handlers, DeleteGroup -> Stop, and the deferred                 *)
(* stopBarrierEmitter), one background goroutine per emitter instance      *)
(* (idleHandler / periodicEmitter), and the runtime's timers.              *)
(*                                                                         *)
(* Time is discrete.  `now` is the clock read by time.Now(); a time.Timer  *)
(* or time.Ticker is a countdown that the runtime fires when it reaches 0  *)
(* by a non-blocking send on its channel of capacity 1 (a value already    *)
(* pending makes the send a no-op).  Timer.Reset and Timer.Stop do not     *)
(* drain the channel.  time.Time{} is 0.  The clock is only assumed not to  *)
(* go back: past the horizon of a specification it stands still while the  *)
(* timers keep running.                                                    *)
(***************************************************************************)
EXTENDS Integers, FiniteSets, Sequences, TLC

\* ------------------------------------------------------------- bounds
\* Spec: several groups and instances side by side, over a short stretch of time.
\* SpecOne: one instance, over a stretch of time that holds several barriers.
NumGroups == 2
MaxInst == 2
MaxNow == 2
OneInst == 1
OneNow == 4
IdleDur == 2
PeriodDur == 2

Groups == 1..NumGroups
Insts == 1..MaxInst

\* the time-stamped kinds, the batch markers, and the deletion message
TimedKinds == {"Point", "BatchPoint", "Barrier"}
MarkKinds == {"BeginBatch", "EndBatch"}
NoMsg == [kind |-> "none", inst |-> 0, t |-> 0, gid |-> 0, bar |-> 0]

VARIABLES
  cfgIdle, cfgPeriod, \* pipeline.BarrierNode.Idle / .Period
  node,               \* result of newBarrierNode: "ok" | "error"
  now,                \* the clock
  nInst,              \* emitter instances constructed so far
  variant,            \* variant[i]: "none" | "idle" | "periodic"
  grp,                \* grp[i]: n.group.ID
  lastT,              \* lastT[i]: n.lastT (atomic.Value)
  timer,              \* timer[i]: -1 not armed, else time left (timer / ticker)
  timerC,             \* timerC[i]: values pending on timer.C / ticker.C (0..1)
  stopC,              \* stopC[i]: "empty" | "full" | "closed"
  wg,                 \* wg[i]: the WaitGroup counter
  gpc,                \* gpc[i]: position of the background goroutine
  barrierStopper,     \* barrierStopper[g]: instance whose Stop is registered, 0 none
  receiver,           \* receiver[g]: the grouped consumer's receiver of g, 0 none
  mainPc,             \* position of the consumer thread
  cur,                \* message being handled by the consumer thread
  stopping,           \* instance whose Stop the consumer thread is inside, 0 none
  down,               \* Consume has returned, stopBarrierEmitter runs
  pending,            \* groups the range of stopBarrierEmitter has not visited
  stopCalls,          \* stopCalls[i]: invocations of Stop on i so far
  emitted,            \* emitted[i]: time of the last barrier i forwarded, 0 none
  \* history of the observed instance obs (0: none is observed), idle variant
  quietAny,           \* time since it last handled a message, up to IdleDur
  quietAcc,           \* time since it last accepted a timed message, up to IdleDur
  ordT,               \* its messages so far are Points in time order: the latest
                      \* of their times; otherwise -1
  barSince            \* it has called Forward on a barrier since its last message

vars == <<cfgIdle, cfgPeriod, node, now, nInst, variant, grp, lastT, timer, timerC,
          stopC, wg, gpc, barrierStopper, receiver, mainPc, cur, stopping,
          down, pending, stopCalls, emitted, quietAny, quietAcc, ordT, barSince>>

emitterVars == <<variant, grp, lastT, timer, timerC, stopC, wg, gpc>>
nodeVars == <<cfgIdle, cfgPeriod, node, nInst, barrierStopper, receiver>>
mainVars == <<mainPc, cur, stopping, down, pending, stopCalls>>
ghostVars == <<emitted, quietAny, quietAcc, ordT, barSince>>
histVars == <<quietAny, quietAcc, ordT, barSince>>

Min(a, b) == IF a < b THEN a ELSE b

\* ------------------------------------------------------- construction

\* mutant: newBarrierNode leaves out the validation of the durations
MutNewBarrierNode(idle, period) == "ok"

\* newBarrierNode: both durations zero is a configuration error
newBarrierNode(idle, period) == IF idle = 0 /\ period = 0 THEN "error" ELSE "ok"

\* mutant: the switch looks at n.b.Period first
MutNewBarrier(idle, period) ==
  IF period # 0 THEN "periodic" ELSE IF idle # 0 THEN "idle" ELSE "error"

\* newBarrier: the switch on n.b.Idle, then n.b.Period
newBarrier(idle, period) ==
  IF idle # 0 THEN "idle" ELSE IF period # 0 THEN "periodic" ELSE "error"

\* mutant: Init leaves out wg.Add(1)
MutInitWg == 1 - 1

\* mutant: Init adds one task too many to the WaitGroup
MutInitWgTwo == 1 + 1

\* idleBarrier.Init / periodicBarrier.Init: wg.Add(1)
InitWg == 1

Init ==
  /\ cfgIdle \in {0, IdleDur}
  /\ cfgPeriod \in {0, PeriodDur}
  /\ node = newBarrierNode(cfgIdle, cfgPeriod)
  /\ now = 0
  /\ nInst = 0
  /\ variant = [i \in Insts |-> "none"]
  /\ grp = [i \in Insts |-> 0]
  /\ lastT = [i \in Insts |-> 0]
  /\ timer = [i \in Insts |-> -1]
  /\ timerC = [i \in Insts |-> 0]
  /\ stopC = [i \in Insts |-> "empty"]
  /\ wg = [i \in Insts |-> 0]
  /\ gpc = [i \in Insts |-> "none"]
  /\ barrierStopper = [g \in Groups |-> 0]
  /\ receiver = [g \in Groups |-> 0]
  /\ mainPc = "run"
  /\ cur = NoMsg
  /\ stopping = 0
  /\ down = FALSE
  /\ pending = {}
  /\ stopCalls = [i \in Insts |-> 0]
  /\ emitted = [i \in Insts |-> 0]
  /\ quietAny = 0
  /\ quietAcc = 0
  /\ ordT = 0
  /\ barSince = FALSE

\* The grouped consumer (edge.NewGroupedConsumer, outside this file) keeps one receiver
\* per group: it calls NewGroup for a group it holds no receiver for, hands a group's
\* messages to the group's receiver, and forgets the receiver after the group's
\* deletion message.
Unseen(g) == receiver[g] = 0
Routed(i) == \E g \in Groups : receiver[g] = i
Forgets(m) == m.kind = "DeleteGroup" /\ m.gid = grp[m.inst]

\* BarrierNode.NewGroup -> newBarrier -> newIdleBarrier / newPeriodicBarrier -> Init.
NewGroup(g, cap) ==
  /\ node = "ok"
  /\ mainPc = "run"
  /\ ~down
  /\ Unseen(g)
  /\ nInst < cap
  /\ newBarrier(cfgIdle, cfgPeriod) # "error"
  /\ LET i == nInst + 1
         v == newBarrier(cfgIdle, cfgPeriod)
     IN /\ nInst' = i
        /\ variant' = [variant EXCEPT ![i] = v]
        /\ grp' = [grp EXCEPT ![i] = g]
        /\ lastT' = [lastT EXCEPT ![i] = 0]
        /\ timer' = [timer EXCEPT ![i] = IF v = "idle" THEN cfgIdle ELSE cfgPeriod]
        /\ timerC' = [timerC EXCEPT ![i] = 0]
        /\ stopC' = [stopC EXCEPT ![i] = "empty"]
        /\ wg' = [wg EXCEPT ![i] = InitWg]
        /\ gpc' = [gpc EXCEPT ![i] = "select"]
        /\ barrierStopper' = [barrierStopper EXCEPT ![g] = i]
        /\ receiver' = [receiver EXCEPT ![g] = i]
  /\ UNCHANGED <<cfgIdle, cfgPeriod, node, now, mainVars, ghostVars>>

\* ------------------------------------------------------ timers, clock

\* mutant: resetTimer arms the timer with less than the idle duration
MutResetTimer(i) == [timer EXCEPT ![i] = cfgIdle - 1]

\* time.Timer.Reset(n.idle) in resetTimer
resetTimer(i) == [timer EXCEPT ![i] = cfgIdle]

\* the runtime fires a due timer: a non-blocking send on its channel; a ticker re-arms
TimerFire(i) ==
  /\ timer[i] = 0
  /\ timerC' = [timerC EXCEPT ![i] = 1]
  /\ timer' = [timer EXCEPT ![i] = IF variant[i] = "periodic" THEN cfgPeriod ELSE -1]
  /\ UNCHANGED <<nodeVars, now, variant, grp, lastT, stopC, wg, gpc, mainVars,
                 ghostVars>>

\* the history is kept of instance i once it is an idle emitter
Observed(i) == i \in Insts /\ variant[i] = "idle"

\* one unit of time passes; a due timer fires before time moves on
Tick(horizon, obs) ==
  /\ node = "ok"
  /\ \A i \in Insts : timer[i] # 0
  /\ now' = IF now < horizon THEN now + 1 ELSE now
  /\ timer' = [i \in Insts |-> IF timer[i] > 0 THEN timer[i] - 1 ELSE timer[i]]
  /\ quietAny' = IF Observed(obs) THEN Min(quietAny + 1, IdleDur) ELSE quietAny
  /\ quietAcc' = IF Observed(obs) THEN Min(quietAcc + 1, IdleDur) ELSE quietAcc
  /\ UNCHANGED <<nodeVars, variant, grp, lastT, timerC, stopC, wg, gpc, mainVars,
                 emitted, ordT, barSince>>

\* ------------------------------------------------ background goroutine

\* mutant: emitBarrier stores the time elapsed since the last barrier
MutNowT(i) == now - lastT[i]

\* emitBarrier: nowT := time.Now()
nowT(i) == now

\* select case <-n.timer.C / <-n.ticker.C, then emitBarrier up to its Forward call:
\* nowT := time.Now(); n.lastT.Store(nowT)
GTimer(i) ==
  /\ gpc[i] = "select"
  /\ timerC[i] = 1
  /\ timerC' = [timerC EXCEPT ![i] = 0]
  /\ lastT' = [lastT EXCEPT ![i] = nowT(i)]
  /\ gpc' = [gpc EXCEPT ![i] = "forward"]
  /\ UNCHANGED <<nodeVars, now, variant, grp, timer, stopC, wg, mainVars, ghostVars>>

\* select case <-n.stopC: return, and the deferred wg.Done()
GStop(i) ==
  /\ gpc[i] = "select"
  /\ stopC[i] \in {"full", "closed"}
  /\ stopC' = [stopC EXCEPT ![i] = IF stopC[i] = "full" THEN "empty" ELSE "closed"]
  /\ gpc' = [gpc EXCEPT ![i] = "done"]
  /\ wg' = [wg EXCEPT ![i] = wg[i] - 1]
  /\ UNCHANGED <<nodeVars, now, variant, grp, lastT, timer, timerC, mainVars, ghostVars>>

\* mutant: the goroutine returns after emitBarrier
MutAfterEmitReturn(v) == "done"

\* mutant: idleHandler goes back to its select without resetTimer
MutAfterEmitSelect(v) == "select"

\* where the goroutine goes after emitBarrier: resetTimer (idle) or the select again
AfterEmit(v) == IF v = "idle" THEN "reset" ELSE "select"

\* emitBarrier: edge.Forward(n.outs, NewBarrierMessage(n.group, nowT)), where nowT is
\* the value just stored in lastT; the error it may return is dropped by the caller
GForward(i, obs) ==
  /\ gpc[i] = "forward"
  /\ \/ emitted' = [emitted EXCEPT ![i] = lastT[i]]
     \/ UNCHANGED emitted
  /\ gpc' = [gpc EXCEPT ![i] = AfterEmit(variant[i])]
  /\ barSince' = IF i = obs /\ Observed(i) THEN TRUE ELSE barSince
  /\ UNCHANGED <<nodeVars, now, variant, grp, lastT, timer, timerC, stopC, wg,
                 mainVars, quietAny, quietAcc, ordT>>

\* mutant: the goroutine does not re-arm the timer after a barrier
MutRearm(i) == timer

\* idleHandler: n.resetTimer() after n.emitBarrier()
RearmAfterEmit(i) == resetTimer(i)

GReset(i) ==
  /\ gpc[i] = "reset"
  /\ timer' = RearmAfterEmit(i)
  /\ gpc' = [gpc EXCEPT ![i] = "select"]
  /\ UNCHANGED <<nodeVars, now, variant, grp, lastT, timerC, stopC, wg, mainVars,
                 ghostVars>>

\* ------------------------------------------------------ consumer thread

\* mutant: m.Time().After(lastT), a message at the barrier's time is dropped
MutAcceptsStrict(t, lt) == t > lt

\* mutant: the comparison with lastT is left out
MutAcceptsAll(t, lt) == TRUE

\* !m.Time().Before(n.lastT.Load().(time.Time))
Accepts(t, lt) == ~(t < lt)

\* mutant: the idle handlers do not call resetTimer
MutHandlerTimer(i) == timer

\* mutant: the periodic handlers reset the ticker as the idle ones reset the timer
MutHandlerTicker(i) ==
  [timer EXCEPT ![i] = IF variant[i] = "idle" THEN cfgIdle ELSE cfgPeriod]

\* resetTimer as called by the handlers of the idle variant; the periodic variant's
\* handlers leave the ticker alone
HandlerTimer(i) == IF variant[i] = "idle" THEN resetTimer(i) ELSE timer

\* The grouped consumer hands the next message of a group to the group's receiver.
\* Point / BatchPoint / Barrier, both variants: a message not before lastT resets the
\* idle timer and is returned (the wrapping receiver then forwards it); any other is
\* dropped (return nil, nil)
HandleTimed(i, kind, t, obs) ==
  /\ mainPc = "run"
  /\ ~down
  /\ Routed(i)
  /\ IF Accepts(t, lastT[i])
     THEN /\ timer' = HandlerTimer(i)
          /\ mainPc' = "fwd"
          /\ cur' = [kind |-> kind, inst |-> i, t |-> t, gid |-> 0, bar |-> emitted[i]]
     ELSE /\ mainPc' = "run"
          /\ cur' = NoMsg
          /\ UNCHANGED timer
  /\ IF i = obs /\ Observed(i)
     THEN /\ quietAny' = 0
          /\ quietAcc' = IF Accepts(t, lastT[i]) THEN 0 ELSE quietAcc
          /\ ordT' = IF kind = "Point" /\ ordT >= 0 /\ t >= ordT THEN t ELSE -1
          /\ barSince' = FALSE
     ELSE UNCHANGED histVars
  /\ UNCHANGED <<nodeVars, now, variant, grp, lastT, timerC, stopC, wg, gpc, stopping,
                 down, pending, stopCalls, emitted>>

\* what a message that is no Point leaves of the history
NotAPoint(i, obs) ==
  IF i = obs /\ Observed(i)
  THEN quietAny' = 0 /\ ordT' = -1 /\ barSince' = FALSE /\ UNCHANGED quietAcc
  ELSE UNCHANGED histVars

\* BeginBatch / EndBatch: return m, nil
HandleMark(i, kind, obs) ==
  /\ mainPc = "run"
  /\ ~down
  /\ Routed(i)
  /\ mainPc' = "fwd"
  /\ cur' = [kind |-> kind, inst |-> i, t |-> 0, gid |-> 0, bar |-> 0]
  /\ NotAPoint(i, obs)
  /\ UNCHANGED <<nodeVars, now, emitterVars, stopping, down, pending, stopCalls,
                 emitted>>

\* mutant: DeleteGroup stops the emitter whatever group the message names
MutDeleteMatches(gid, own) == TRUE

\* mutant: DeleteGroup never stops the emitter
MutDeleteNever(gid, own) == FALSE

\* DeleteGroup: if m.GroupID() == n.group.ID { n.Stop() }
DeleteMatches(gid, own) == gid = own

HandleDelete(i, gid, obs) ==
  /\ mainPc = "run"
  /\ ~down
  /\ Routed(i)
  /\ cur' = [kind |-> "DeleteGroup", inst |-> i, t |-> 0, gid |-> gid, bar |-> 0]
  /\ IF DeleteMatches(gid, grp[i])
     THEN /\ mainPc' = "stop_signal"
          /\ stopping' = i
          /\ stopCalls' = [stopCalls EXCEPT ![i] = @ + 1]
     ELSE /\ mainPc' = "fwd"
          /\ UNCHANGED <<stopping, stopCalls>>
  /\ NotAPoint(i, obs)
  /\ UNCHANGED <<nodeVars, now, emitterVars, down, pending, emitted>>

\* the receiver NewGroup wraps the handler in forwards the message the handler
\* returned to n.outs
ForwardMsg ==
  /\ mainPc = "fwd"
  /\ mainPc' = "run"
  /\ cur' = NoMsg
  /\ receiver' = IF Forgets(cur) THEN [receiver EXCEPT ![cur.gid] = 0] ELSE receiver
  /\ UNCHANGED <<cfgIdle, cfgPeriod, node, nInst, barrierStopper, now, emitterVars,
                 stopping, down, pending, stopCalls, ghostVars>>

\* ----------------------------------------------------------------- Stop

\* idleBarrier.Stop: close(n.stopC), which panics on a closed channel;
\* periodicBarrier.Stop: n.stopC <- true, which blocks while the buffer is full;
\* then n.timer.Stop() / n.ticker.Stop()
StopSignal ==
  /\ mainPc = "stop_signal"
  /\ LET i == stopping
     IN IF variant[i] = "idle"
        THEN IF stopC[i] = "closed"
             THEN mainPc' = "panic" /\ UNCHANGED <<stopC, timer>>
             ELSE /\ mainPc' = "stop_wait"
                  /\ stopC' = [stopC EXCEPT ![i] = "closed"]
                  /\ timer' = [timer EXCEPT ![i] = -1]
        ELSE /\ stopC[i] = "empty"
             /\ stopC' = [stopC EXCEPT ![i] = "full"]
             /\ timer' = [timer EXCEPT ![i] = -1]
             /\ mainPc' = "stop_wait"
  /\ UNCHANGED <<nodeVars, now, variant, grp, lastT, timerC, wg, gpc, cur,
                 stopping, down, pending, stopCalls, ghostVars>>

\* mutant: Stop does not wait for the goroutine
MutWaitReturns(c) == TRUE

\* n.wg.Wait() returns once the counter is zero
WaitReturns(c) == c = 0

\* n.wg.Wait(), then Stop returns to DeleteGroup or to the range of stopBarrierEmitter
StopWait ==
  /\ mainPc = "stop_wait"
  /\ WaitReturns(wg[stopping])
  /\ mainPc' = IF down THEN "shutdown" ELSE "fwd"
  /\ stopping' = 0
  /\ UNCHANGED <<nodeVars, now, emitterVars, cur, down, pending, stopCalls, ghostVars>>

\* ------------------------------------------------------------- shutdown

\* mutant: the range of stopBarrierEmitter visits no entry
MutRegistered == {}

\* the stop functions stopBarrierEmitter ranges over: every entry of the map
Registered == {g \in Groups : barrierStopper[g] # 0}

\* consumer.Consume() returns; the deferred stopBarrierEmitter starts
Shutdown ==
  /\ node = "ok"
  /\ mainPc = "run"
  /\ ~down
  /\ down' = TRUE
  /\ pending' = Registered
  /\ mainPc' = "shutdown"
  /\ UNCHANGED <<nodeVars, now, emitterVars, cur, stopping, stopCalls, ghostVars>>

\* for _, stopF := range n.barrierStopper { stopF() }: the next entry, in any order
ShutdownNext(g) ==
  /\ mainPc = "shutdown"
  /\ g \in pending
  /\ pending' = pending \ {g}
  /\ stopping' = barrierStopper[g]
  /\ stopCalls' = [stopCalls EXCEPT ![barrierStopper[g]] = @ + 1]
  /\ mainPc' = "stop_signal"
  /\ UNCHANGED <<nodeVars, now, emitterVars, cur, down, ghostVars>>

\* the range is over: stopBarrierEmitter returns
ShutdownDone ==
  /\ mainPc = "shutdown"
  /\ pending = {}
  /\ mainPc' = "done"
  /\ UNCHANGED <<nodeVars, now, emitterVars, cur, stopping, down, pending, stopCalls,
                 ghostVars>>

\* ------------------------------------------------------- specification

\* cap: the instances constructed at most; horizon: the instant at which the clock
\* stops, which is also the latest time a message carries; obs: the observed instance
NextOf(cap, horizon, obs) ==
  \/ \E g \in Groups : NewGroup(g, cap)
  \/ \E i \in Insts, k \in TimedKinds, t \in 0..horizon : HandleTimed(i, k, t, obs)
  \/ \E i \in Insts, k \in MarkKinds : HandleMark(i, k, obs)
  \/ \E i \in Insts, g \in Groups : HandleDelete(i, g, obs)
  \/ ForwardMsg
  \/ StopSignal
  \/ StopWait
  \/ Shutdown
  \/ \E g \in Groups : ShutdownNext(g)
  \/ ShutdownDone
  \/ \E i \in Insts : TimerFire(i)
  \/ Tick(horizon, obs)
  \/ \E i \in Insts : GTimer(i)
  \/ \E i \in Insts : GStop(i)
  \/ \E i \in Insts : GForward(i, obs)
  \/ \E i \in Insts : GReset(i)

\* several groups and instances, no history
Next == NextOf(MaxInst, MaxNow, 0)
\* one instance, observed
NextOne == NextOf(OneInst, OneNow, 1)

Spec == Init /\ [][Next]_vars
SpecOne == Init /\ [][NextOne]_vars

\* Time passes, due timers fire, and a goroutine that can run does run; nothing is
\* assumed of the arrival of messages or of the consumer thread.
FairOne ==
  /\ WF_vars(Tick(OneNow, 1))
  /\ \A i \in Insts : /\ WF_vars(TimerFire(i))
                       /\ WF_vars(GTimer(i))
                       /\ WF_vars(GStop(i))
                       /\ WF_vars(GForward(i, 1))
                       /\ WF_vars(GReset(i))
SpecOneFair == SpecOne /\ FairOne

\* The consumer thread, once inside Stop, goes on; and a goroutine whose select finds
\* the stop channel ready again and again does take that case at some point (select
\* chooses among its ready cases at random).
FairStop ==
  /\ WF_vars(StopSignal)
  /\ WF_vars(StopWait)
  /\ \A i \in Insts : SF_vars(GStop(i))
SpecOneStop == SpecOneFair /\ FairStop

\* ------------------------------------------------------------- claims

\* the consumer thread is inside Stop of instance i (a panic never leaves it)
InStop(i) == stopping = i /\ mainPc \in {"stop_signal", "stop_wait", "panic"}

\* some call of Stop on instance i has returned
StopReturned(i) == stopCalls[i] - (IF InStop(i) THEN 1 ELSE 0) >= 1

\* the background goroutine of instance i is alive
Alive(i) == gpc[i] \in {"select", "forward", "reset"}

\* C1: once a call of Stop on an instance has returned, the instance's goroutine
\* never again calls Forward on a barrier, whatever was pending on the timer's or
\* ticker's channel when Stop was called.
C1_NoBarrierAfterStop ==
  [][\A i \in Insts : StopReturned(i) => ~GForward(i, 0)]_vars

\* Stop has returned while an expiry that fired before it is still on the channel
C1_Witness ==
  \E i \in Insts : StopReturned(i) /\ timerC[i] = 1 /\ emitted[i] > 0

\* C2: when a call of Stop on an instance has returned, the instance's goroutine
\* (idleHandler / periodicEmitter) has exited.
C2_StopWaitsForExit ==
  \A i \in Insts : StopReturned(i) => gpc[i] = "done"

\* Stop called by DeleteGroup has returned to the handler, for each variant
C2_Witness ==
  \E i \in Insts : StopReturned(i) /\ mainPc = "fwd" /\ cur.kind = "DeleteGroup"
                   /\ variant[i] = "periodic"

\* C3: every instance has Stop invoked exactly once: at most once at any time, and
\* once when stopBarrierEmitter has returned.
C3_StoppedExactlyOnce ==
  \A i \in Insts :
    /\ stopCalls[i] <= 1
    /\ (mainPc = "done" /\ variant[i] # "none") => stopCalls[i] = 1

\* C4: stopBarrierEmitter never crashes, and when it has returned no goroutine of
\* any instance is alive.
C4_ShutdownCompletes ==
  /\ mainPc # "panic"
  /\ mainPc = "done" => \A i \in Insts : ~Alive(i)

\* a message the handler returned is one the wrapping receiver forwards
Returned(i, kind, t) ==
  mainPc = "fwd" /\ cur.kind = kind /\ cur.inst = i /\ cur.t = t

\* C5: a Point, BatchPoint or Barrier whose time is before that of a barrier the
\* instance has forwarded is dropped by the handler, and one whose time is not
\* before the current lastT is returned for forwarding as it came.
C5_Suppression ==
  [][\A i \in Insts, k \in TimedKinds, t \in 0..OneNow :
       HandleTimed(i, k, t, 1) =>
         /\ t < emitted[i] => (mainPc' = "run" /\ cur' = NoMsg)
         /\ t >= lastT[i] => Returned(i, k, t)']_vars

\* an in-order Point has just been dropped by an instance that has forwarded a barrier
C5_Witness ==
  Observed(1) /\ emitted[1] > 0 /\ quietAny = 0 /\ quietAcc > 0 /\ ordT >= 0
    /\ mainPc = "run"

\* the step that forwards a data message (a point or a batch point)
ForwardsData == ForwardMsg /\ cur.kind \in {"Point", "BatchPoint"}

\* C6 as claimed: once an instance has forwarded a barrier of time T, no data message
\* of its group with a time at or before T is forwarded.
C6_NoDataAtOrBeforeBarrier ==
  [][(ForwardsData /\ emitted[cur.inst] > 0) => cur.t > emitted[cur.inst]]_vars

\* C6 as amended: a data message that was handed to the handler after the barrier of
\* time T was forwarded is forwarded only if its time is not before T.
C6_NoDataBeforeBarrier ==
  [][ForwardsData => cur.t >= cur.bar]_vars

\* a Point with the time of the barrier forwarded before it is on its way out
C6_Witness ==
  mainPc = "fwd" /\ cur.kind = "Point" /\ cur.bar > 0 /\ cur.t = cur.bar

\* the idle timer of the observed instance expires, which is what makes its goroutine
\* emit a barrier, while the instance's messages so far are Points in time order
ExpiresInOrder == TimerFire(1) /\ Observed(1) /\ ordT >= 0

\* C7 as claimed: the timer does not expire less than the idle duration after a Point
\* was handled.
C7_NoExpiryWhilePoints ==
  [][ExpiresInOrder => quietAny >= IdleDur]_vars

\* C7 as amended: the timer does not expire less than the idle duration after a Point
\* was accepted (a Point before lastT is dropped and does not reset the timer).
C7_NoExpiryWhileAccepted ==
  [][ExpiresInOrder => quietAcc >= IdleDur]_vars

\* after an earlier barrier and in-order Points the timer has expired again
C7_Witness ==
  Observed(1) /\ timerC[1] = 1 /\ ordT > 0 /\ quietAcc = IdleDur /\ emitted[1] > 0

\* C8: while the observed idle emitter is not stopped, once it has handled no message
\* for the idle duration, its goroutine calls Forward on a barrier, unless a message
\* or a Stop comes first.
C8_BarrierAfterSilence ==
  (Observed(1) /\ stopCalls[1] = 0 /\ quietAny = IdleDur)
    ~> (barSince \/ quietAny < IdleDur \/ stopCalls[1] > 0)

\* a Point, then silence for the idle duration, then the barrier
C8_Witness ==
  Observed(1) /\ stopCalls[1] = 0 /\ quietAny = IdleDur /\ barSince /\ ordT > 0

\* C9 as claimed: every tick of the ticker of a running periodic emitter reaches the
\* goroutine, so that it is answered by a barrier of its own.
C9_EveryTickDelivered ==
  [][\A i \in Insts :
       (TimerFire(i) /\ variant[i] = "periodic" /\ stopCalls[i] = 0)
         => timerC[i] = 0]_vars

\* what a handler of the periodic variant leaves alone
PeriodicFrame ==
  \A i \in Insts :
    (variant[i] = "periodic"
       /\ \/ \E k \in TimedKinds, t \in 0..OneNow : HandleTimed(i, k, t, 1)
          \/ \E k \in MarkKinds : HandleMark(i, k, 1))
      => UNCHANGED <<timer, timerC, gpc, lastT, emitted, stopC, wg>>

\* C9 as amended: no handler call changes the ticker, its channel, the goroutine or
\* lastT, and a tick pending on the ticker's channel of a periodic emitter that is not
\* stopped leads to the goroutine forwarding a barrier (a tick that fires while one
\* is pending is dropped by the ticker).
C9_PendingTickEmits ==
  /\ [][PeriodicFrame]_vars
  /\ \A i \in Insts :
       (variant[i] = "periodic" /\ timerC[i] = 1 /\ stopCalls[i] = 0)
         ~> (gpc[i] = "forward" \/ stopCalls[i] > 0)

\* a point is on its way out of a periodic emitter that has forwarded a barrier and
\* has the next tick pending
C9_Witness ==
  variant[1] = "periodic" /\ emitted[1] > 0 /\ timerC[1] = 1 /\ stopCalls[1] = 0
    /\ mainPc = "fwd" /\ cur.kind = "Point"

\* the fields and the goroutine of instance j
EmitterOf(j) ==
  <<variant[j], grp[j], lastT[j], timer[j], timerC[j], stopC[j], wg[j], gpc[j]>>

\* C10: a DeleteGroup message stops the emitter that handles it exactly when it names
\* the emitter's group; while it is handled (Stop included) every other emitter's
\* fields and goroutine are left as they are, and the message is returned.
C10_DeleteStopsOwnGroup ==
  [][/\ \A i \in Insts, g \in Groups :
          HandleDelete(i, g, 0) =>
            /\ (stopping' = i) <=> (g = grp[i])
            /\ g # grp[i] => (mainPc' = "fwd" /\ stopCalls' = stopCalls)
            /\ cur'.kind = "DeleteGroup" /\ cur'.gid = g
            /\ \A j \in Insts : EmitterOf(j)' = EmitterOf(j)
     /\ ((StopSignal \/ StopWait) /\ ~down) =>
          /\ cur' = cur /\ cur.kind = "DeleteGroup"
          /\ \A j \in Insts \ {stopping} : EmitterOf(j)' = EmitterOf(j)]_vars

\* one group's emitter was stopped by its deletion message and another group's
\* emitter is forwarding a barrier
C10_Witness ==
  \E i, j \in Insts : /\ i # j /\ ~down
                      /\ StopReturned(i)
                      /\ gpc[j] = "forward"

\* C11: construction fails exactly when both durations are zero; a failed
\* construction leaves no node, so no emitter instance and no goroutine ever exists;
\* after a successful one newBarrier has a variant to build for every group, that is,
\* NewGroup returns no error.
C11_ConstructionValidation ==
  /\ (cfgIdle = 0 /\ cfgPeriod = 0) <=> (node = "error")
  /\ node = "error" =>
       (nInst = 0 /\ \A i \in Insts : variant[i] = "none" /\ gpc[i] = "none")
  /\ node = "ok" => newBarrier(cfgIdle, cfgPeriod) \in {"idle", "periodic"}

\* a node built with a non-zero duration has built the emitters of two groups
C11_Witness ==
  node = "ok" /\ nInst = 2 /\ \A i \in Insts : variant[i] # "none"

\* C12: every emitter instance is an idle emitter when the idle duration is non-zero,
\* whatever the period, and a periodic emitter only when the idle duration is zero
\* and the period is not.
C12_VariantSelection ==
  \A i \in Insts :
    /\ (variant[i] # "none" /\ cfgIdle # 0) => variant[i] = "idle"
    /\ variant[i] = "periodic" => (cfgIdle = 0 /\ cfgPeriod # 0)
    /\ variant[i] = "idle" => timer[i] <= cfgIdle

\* with both durations set, an idle emitter has forwarded a barrier
C12_Witness ==
  cfgIdle # 0 /\ cfgPeriod # 0 /\ \E i \in Insts : variant[i] = "idle" /\ emitted[i] > 0

\* C13: lastT of an instance is the zero time when the instance is built, is written
\* by no step but the goroutine's emission, and never decreases.
C13_LastTMonotone ==
  [][\A i \in Insts :
       /\ lastT'[i] >= lastT[i]
       /\ lastT'[i] # lastT[i] => GTimer(i)
       /\ (variant[i] = "none" /\ variant'[i] # "none") => lastT'[i] = 0]_vars

\* the second barrier's time is stored while the first barrier's is the last forwarded
C13_Witness ==
  \E i \in Insts : emitted[i] > 0 /\ lastT[i] > emitted[i] /\ gpc[i] = "forward"

\* the instances of group g whose goroutine is alive
LiveOf(g) == {i \in Insts : grp[i] = g /\ Alive(i)}

\* C14: an instance's WaitGroup counts its live goroutines, one or none, and of the
\* instances built for one group at most one has a live goroutine.
C14_OneLiveTask ==
  /\ \A i \in Insts : wg[i] = IF Alive(i) THEN 1 ELSE 0
  /\ \A g \in Groups : Cardinality(LiveOf(g)) <= 1

\* a group was deleted and observed again: its first instance is dead, its second is
\* alive and is the one registered
C14_Witness ==
  \E i, j \in Insts : /\ i # j /\ grp[i] = grp[j] /\ grp[i] \in Groups
                      /\ ~Alive(i) /\ Alive(j)
                      /\ barrierStopper[grp[j]] = j

\* the consumer thread is inside the first call of Stop on instance i
InFirstStop(i) ==
  stopping = i /\ mainPc \in {"stop_signal", "stop_wait"} /\ stopCalls[i] = 1

\* C15: the first call of Stop on an instance returns.
C15_StopReturns ==
  \A i \in Insts : InFirstStop(i) ~> StopReturned(i)

\* node shutdown's Stop has returned although the timer had fired when it was called
C15_Witness ==
  down /\ StopReturned(1) /\ stopCalls[1] = 1 /\ timerC[1] = 1

\* the last Forward of a barrier by instance i returned an error: the time stored in
\* lastT for it is not the time of the last barrier that went out
Failed(i) == variant[i] # "none" /\ gpc[i] # "forward" /\ lastT[i] # emitted[i]

\* C16: after a failed Forward of a barrier, while the emitter is not stopped, the
\* goroutine is alive and lastT holds the time of the failed emission; the idle
\* goroutine goes on to re-arm its timer with the idle duration; and an expiry that is
\* pending leads to the goroutine calling Forward on a barrier again.
C16_FailureDoesNotStall ==
  /\ [](\A i \in Insts : (Failed(i) /\ stopCalls[i] = 0)
                           => (Alive(i) /\ lastT[i] > emitted[i]))
  /\ [][\A i \in Insts : GReset(i) => timer'[i] = cfgIdle]_vars
  /\ \A i \in Insts : (Failed(i) /\ gpc[i] = "reset") ~> (gpc[i] = "select")
  /\ \A i \in Insts : (Failed(i) /\ timerC[i] = 1 /\ stopCalls[i] = 0)
                        ~> (gpc[i] = "forward" \/ stopCalls[i] > 0)

\* after a failed Forward the idle timer was re-armed and has expired again
C16_Witness ==
  Failed(1) /\ variant[1] = "idle" /\ gpc[1] = "select" /\ timerC[1] = 1
    /\ stopCalls[1] = 0

\* C17: once a call of Stop on an idle emitter has returned, its timer is not armed.
C17_TimerReleased ==
  \A i \in Insts : (variant[i] = "idle" /\ StopReturned(i)) => timer[i] = -1

\* C18: a handler of an idle emitter given a Point, BatchPoint or Barrier not before
\* lastT sets the timer to the idle duration and returns the message as it came; given
\* an earlier one it returns no message and leaves the timer; BeginBatch and EndBatch
\* are returned and leave the timer, its channel and lastT; no handler changes lastT.
C18_IdleHandlerFrame ==
  [][\A i \in Insts : variant[i] = "idle" =>
       /\ \A k \in TimedKinds, t \in 0..OneNow :
            HandleTimed(i, k, t, 1) =>
              /\ lastT' = lastT /\ timerC' = timerC
              /\ IF t >= lastT[i]
                 THEN timer'[i] = cfgIdle /\ Returned(i, k, t)'
                 ELSE timer' = timer /\ mainPc' = "run" /\ cur' = NoMsg
       /\ \A k \in MarkKinds :
            HandleMark(i, k, 1) =>
              /\ mainPc' = "fwd" /\ cur'.kind = k /\ cur'.inst = i
              /\ timer' = timer /\ timerC' = timerC /\ lastT' = lastT]_vars

\* a pass-through Barrier not before the last emitted barrier was accepted by an idle
\* emitter, whose timer was reset
C18_Witness ==
  variant[1] = "idle" /\ mainPc = "fwd" /\ cur.kind = "Barrier" /\ lastT[1] > 0
    /\ cur.t >= lastT[1] /\ timer[1] = cfgIdle

\* C19: the idle goroutine takes a pending expiry by storing the clock's time in lastT,
\* then calls Forward on a barrier of exactly that time, then sets the timer to the
\* idle duration; and while the emitter is not stopped and no message is handled, the
\* re-arm after one barrier leads to the Forward of the next.
C19_EmissionStep ==
  /\ [][\A i \in Insts : variant[i] = "idle" =>
          /\ GTimer(i) => (timerC[i] = 1 /\ lastT'[i] = now /\ gpc'[i] = "forward")
          /\ GForward(i, 1) => /\ emitted'[i] \in {emitted[i], lastT[i]}
                               /\ lastT'[i] = lastT[i]
                               /\ gpc'[i] = "reset"
          /\ GReset(i) => (timer'[i] = cfgIdle /\ gpc'[i] = "select")]_vars
  /\ (Observed(1) /\ barSince /\ gpc[1] = "reset" /\ stopCalls[1] = 0)
       ~> (gpc[1] = "forward" \/ ~barSince \/ stopCalls[1] > 0)

\* no message but Points of time 0 was ever handled and a barrier later than one idle
\* duration after the first possible one has gone out
C19_Witness ==
  Observed(1) /\ barSince /\ ordT = 0 /\ stopCalls[1] = 0 /\ gpc[1] = "reset"
    /\ emitted[1] = lastT[1] /\ emitted[1] >= IdleDur + IdleDur

\* C20: before node shutdown every instance with a live goroutine is the one whose
\* Stop is registered under its group; entries of barrierStopper are written by
\* NewGroup only and never removed; so the range of stopBarrierEmitter holds the
\* group of every live goroutine.
C20_RegistryCoversLive ==
  /\ [](~down => \A i \in Insts : Alive(i) => barrierStopper[grp[i]] = i)
  /\ [][\A g \in Groups :
          /\ barrierStopper[g] # 0 => barrierStopper'[g] # 0
          /\ barrierStopper'[g] # barrierStopper[g] => NewGroup(g, MaxInst)]_vars
  /\ [][Shutdown => \A i \in Insts : Alive(i) => grp[i] \in pending']_vars

\* node shutdown has begun with a live goroutine of a group that was deleted and
\* observed again
C20_Witness ==
  \E i, j \in Insts : /\ i # j /\ grp[i] = grp[j]
                      /\ Alive(j) /\ mainPc = "shutdown" /\ grp[j] \in pending

====
